---- MODULE Spec2Model ----
(***************************************************************************)
(* The roommate ledger: one SQLite table `expenses`, the SQL statements of *)
(* ExpenseService (src/services.py, and the earlier single-file version in *)
(* src/app.py), and the Streamlit views of src/views.py that call them.    *)
(*                                                                         *)
(* A stored row is what SQLite holds: purchased_date is the TEXT that the  *)
(* sqlite3 date adapter wrote (date.isoformat(), a sequence of character   *)
(* codes here), purchased_by a string, price_in_cents an integer.  A       *)
(* comment is represented by its number of characters, the only thing any  *)
(* statement of the code or of the schema could depend on; the comment     *)
(* column holds None (NULL) or the comment given.  src/app.py creates the  *)
(* table without the comment column, and its rows have three columns.      *)
(***************************************************************************)
EXTENDS Integers, Sequences, FiniteSets, TLC

VARIABLES
    table,        \* the expenses table: rowid -> stored row
    columns,      \* the columns the table was created with
    seeding,      \* the rowid a running seed_expenses_table replaces next, or None
    created,      \* the rowids of the table in the order their rows were inserted
    last,         \* the statement executed last, and whether its rowid was in the table
    raised,       \* the exception the last operation ended with, or "none"
    cache,        \* st.cache of get_data: arguments -> the dataframe returned
    read_page,    \* per session: where its run of render_read stands
    raw_df,       \* per session: the dataframe its read page obtained from get_data
    shown,        \* per session: the widget values of its read page
    delete_page   \* per session: the expense its delete page bound to the button

vars == <<table, columns, seeding, created, last, raised, cache, read_page, raw_df, shown, delete_page>>

\* Optional[...]: None, or the value given
None == <<>>
Some(x) == <<x>>

(***************************************************************************)
(* Bounds of the model.                                                    *)
(***************************************************************************)
MaxRowid == 1
SeedCount == 1
MaxCache == 1

(***************************************************************************)
(* Calendar dates, as datetime.date computes them.  A date is its          *)
(* proleptic Gregorian ordinal (date.toordinal()).                         *)
(***************************************************************************)
IsLeap(y) == (y % 4 = 0) /\ ((y % 100 # 0) \/ (y % 400 = 0))

DaysInMonth(y, m) ==
    IF m = 2 THEN (IF IsLeap(y) THEN 29 ELSE 28)
    ELSE IF m \in {4, 6, 9, 11} THEN 30 ELSE 31

RECURSIVE DaysBeforeMonth(_, _)
DaysBeforeMonth(y, m) ==
    IF m = 1 THEN 0 ELSE DaysBeforeMonth(y, m - 1) + DaysInMonth(y, m - 1)

DaysBeforeYear(y) ==
    (y - 1) * 365 + ((y - 1) \div 4) - ((y - 1) \div 100) + ((y - 1) \div 400)

ymd2ord(y, m, d) == DaysBeforeYear(y) + DaysBeforeMonth(y, m) + d

RECURSIVE MonthOf(_, _, _)
MonthOf(y, m, n) ==
    \* n: days into year y, counted from 0, not yet attributed to a month before m
    IF n < DaysInMonth(y, m) THEN <<m, n + 1>>
    ELSE MonthOf(y, m + 1, n - DaysInMonth(y, m))

ord2ymd(ordinal) ==
    LET n0   == ordinal - 1
        n400 == n0 \div 146097
        r400 == n0 % 146097
        n100 == r400 \div 36524
        r100 == r400 % 36524
        n4   == r100 \div 1461
        r4   == r100 % 1461
        n1   == r4 \div 365
        r1   == r4 % 365
        year == n400 * 400 + n100 * 100 + n4 * 4 + n1 + 1
    IN  IF n1 = 4 \/ n100 = 4
        THEN <<year - 1, 12, 31>>
        ELSE LET md == MonthOf(year, 1, r1) IN <<year, md[1], md[2]>>

(***************************************************************************)
(* Text, as SQLite stores and compares it: a sequence of character codes,  *)
(* compared bytewise (the BINARY collation).                               *)
(***************************************************************************)
Digit(k) == 48 + k
Hyphen == <<45>>

Pad4(n) == <<Digit(n \div 1000), Digit((n \div 100) % 10), Digit((n \div 10) % 10), Digit(n % 10)>>

Pad2(n) == <<Digit(n \div 10), Digit(n % 10)>>

\* date.isoformat(): "%04d-%02d-%02d", what sqlite3's default adapter binds for a date
isoformat(d) ==
    LET ymd == ord2ymd(d)
    IN  Pad4(ymd[1]) \o Hyphen \o Pad2(ymd[2]) \o Hyphen \o Pad2(ymd[3])

RECURSIVE ToNumber(_)
ToNumber(s) ==
    IF s = <<>> THEN 0
    ELSE 10 * ToNumber(SubSeq(s, 1, Len(s) - 1)) + (s[Len(s)] - 48)

\* pydantic's parse of a "YYYY-MM-DD" column value into a date (Expense(**row))
parse_date(s) ==
    ymd2ord(ToNumber(SubSeq(s, 1, 4)), ToNumber(SubSeq(s, 6, 7)), ToNumber(SubSeq(s, 9, 10)))

RECURSIVE TextLE(_, _)
TextLE(a, b) ==
    IF a = <<>> THEN TRUE
    ELSE IF b = <<>> THEN FALSE
    ELSE IF a[1] # b[1] THEN a[1] < b[1]
    ELSE TextLE(Tail(a), Tail(b))

(***************************************************************************)
(* The values the forms and callers supply.                                *)
(***************************************************************************)
FirstDay == ymd2ord(2021, 2, 27)
Dates == FirstDay .. (FirstDay + 2)
\* dates a week and more after the first, for the rolling windows of the read view
LaterDates == {FirstDay + 7, FirstDay + 8}

Names == {"Alice", "Bob", "All"}

\* VARCHAR(120) of the comment column
COMMENT_VARCHAR == 120
\* the length of the seed comment 'Food' followed by an emoji
ShortComment == 6

WithRowid(rowid, expense) ==
    [rowid          |-> rowid,
     price_in_cents |-> expense.price_in_cents,
     purchased_date |-> expense.purchased_date,
     purchased_by   |-> expense.purchased_by,
     comment        |-> expense.comment]

\* models.BaseExpense: four required fields, none of them constrained.  The
\* values submitted: every date and purchaser with an ordinary price and a
\* short comment, an expense with a negative price, and an expense priced 0
\* whose comment is longer than the column's VARCHAR(120)
BaseExpense ==
    [price_in_cents : {2, 50}, purchased_date : Dates,
     purchased_by : Names, comment : {ShortComment}]
    \cup {[price_in_cents |-> -1, purchased_date |-> FirstDay,
           purchased_by |-> "Alice", comment |-> ShortComment],
          [price_in_cents |-> 0, purchased_date |-> FirstDay + 1,
           purchased_by |-> "Bob", comment |-> COMMENT_VARCHAR + 1]}

Rowids == 0 .. MaxRowid

\* models.Expense: BaseExpense and a rowid
Expense == {WithRowid(rowid, expense) : rowid \in Rowids, expense \in BaseExpense}

\* date.isoformat() of the dates in use, computed once
IsoText == [d \in Dates \cup LaterDates |-> isoformat(d)]

\* the parse of the texts in use, computed once
DateOfText == [text \in {IsoText[d] : d \in DOMAIN IsoText} |-> parse_date(text)]

\* CREATE TABLE IF NOT EXISTS expenses(...) of src/services.py
ServicesColumns == {"purchased_date", "purchased_by", "comment", "price_in_cents"}

\* CREATE TABLE IF NOT EXISTS expenses(...) of src/app.py
AppColumns == {"purchased_date", "purchased_by", "price_in_cents"}

\* expense.dict() bound to the named parameters of a statement of
\* src/services.py: the date goes through the sqlite3 adapter, the other values
\* are stored as they are
BoundRow(expense) ==
    [purchased_date |-> IsoText[expense.purchased_date],
     purchased_by   |-> expense.purchased_by,
     price_in_cents |-> expense.price_in_cents,
     comment        |-> Some(expense.comment)]

\* expense.dict() bound to a statement of src/app.py, which names three
\* columns: a comment in the dict is not used, and a comment column of the
\* table is left NULL
AppBoundRow(expense) ==
    IF "comment" \in columns
    THEN [purchased_date |-> IsoText[expense.purchased_date],
          purchased_by   |-> expense.purchased_by,
          price_in_cents |-> expense.price_in_cents,
          comment        |-> None]
    ELSE [purchased_date |-> IsoText[expense.purchased_date],
          purchased_by   |-> expense.purchased_by,
          price_in_cents |-> expense.price_in_cents]

(***************************************************************************)
(* The table and the statements of ExpenseService.                         *)
(***************************************************************************)
Max(S) == CHOOSE x \in S : \A y \in S : y <= x

NewRowidOfLast(t) == IF DOMAIN t = {} THEN 1 ELSE Max(DOMAIN t)

\* the rowid SQLite gives an INSERT that names none: one more than the largest
\* rowid in the table, 1 in an empty table
NewRowid(t) == IF DOMAIN t = {} THEN 1 ELSE Max(DOMAIN t) + 1

Range(q) == {q[i] : i \in DOMAIN q}

Without(seq, x) == SelectSeq(seq, LAMBDA y : y # x)

Statement(op, hit) == [op |-> op, hit |-> hit]

ViewsUnchanged == UNCHANGED <<cache, read_page, raw_df, shown, delete_page>>

\* a statement of ExpenseService leaves the schema alone and is not part of a
\* running seed_expenses_table
SchemaUnchanged == UNCHANGED <<columns, seeding>>

\* INSERT into expenses(purchased_date, purchased_by, price_in_cents, comment)
Inserted(t, expense) ==
    [id \in DOMAIN t \cup {NewRowid(t)} |->
        IF id = NewRowid(t) THEN BoundRow(expense) ELSE t[id]]

\* a statement that names the comment column cannot be prepared on a table
\* created without it: sqlite3 raises and nothing is written
create_expense_query(expense) ==
    /\ NewRowid(table) <= MaxRowid
    /\ IF "comment" \in columns
       THEN /\ table' = Inserted(table, expense)
            /\ created' = Append(created, NewRowid(table))
            /\ raised' = "none"
       ELSE /\ UNCHANGED <<table, created>>
            /\ raised' = "OperationalError"
    /\ last' = Statement("create_expense", FALSE)

create_expense(expense) ==
    /\ create_expense_query(expense)
    /\ SchemaUnchanged
    /\ ViewsUnchanged

\* src/app.py: INSERT into expenses(purchased_date, purchased_by, price_in_cents)
AppInserted(t, expense) ==
    [id \in DOMAIN t \cup {NewRowid(t)} |->
        IF id = NewRowid(t) THEN AppBoundRow(expense) ELSE t[id]]

app_create_expense(expense) ==
    /\ NewRowid(table) <= MaxRowid
    /\ table' = AppInserted(table, expense)
    /\ created' = Append(created, NewRowid(table))
    /\ raised' = "none"
    /\ last' = Statement("app_create_expense", FALSE)
    /\ SchemaUnchanged
    /\ ViewsUnchanged

\* UPDATE expenses SET ... WHERE rowid=:rowid
Updated(t, expense) ==
    [id \in DOMAIN t |-> IF id = expense.rowid THEN BoundRow(expense) ELSE t[id]]

update_expense(expense) ==
    /\ IF "comment" \in columns
       THEN /\ table' = Updated(table, expense)
            /\ raised' = "none"
       ELSE /\ UNCHANGED table
            /\ raised' = "OperationalError"
    /\ last' = Statement("update_expense", expense.rowid \in DOMAIN table)
    /\ UNCHANGED created
    /\ SchemaUnchanged
    /\ ViewsUnchanged

\* src/app.py: UPDATE expenses SET ..., price=:price WHERE rowid=:rowid; neither
\* schema has a column price, so preparing the statement raises and nothing is
\* written
app_update_expense(expense) ==
    /\ last' = Statement("app_update_expense", expense.rowid \in DOMAIN table)
    /\ raised' = "OperationalError"
    /\ UNCHANGED <<table, created>>
    /\ SchemaUnchanged
    /\ ViewsUnchanged

DeletedFrom(t, rowid) == [id \in {x \in DOMAIN t : x < rowid} |-> t[id]]

\* DELETE from expenses WHERE rowid = :rowid
Deleted(t, rowid) == [id \in DOMAIN t \ {rowid} |-> t[id]]

delete_expense_query(rowid) ==
    /\ table' = Deleted(table, rowid)
    /\ created' = Without(created, rowid)
    /\ last' = Statement("delete_expense", rowid \in DOMAIN table)
    /\ raised' = "none"

delete_expense(rowid) ==
    /\ delete_expense_query(rowid)
    /\ SchemaUnchanged
    /\ ViewsUnchanged

(***************************************************************************)
(* ExpenseService.list_all_expenses.  start_date, end_date and selections  *)
(* are None or given; the result is one of the orders SQLite may return,   *)
(* which ORDER BY purchased_date DESC leaves open among equal dates.       *)
(***************************************************************************)
InRangeExclusive(text, start_date, end_date) ==
    /\ start_date # None => (TextLE(IsoText[start_date[1]], text) /\ IsoText[start_date[1]] # text)
    /\ end_date # None => (TextLE(text, IsoText[end_date[1]]) /\ IsoText[end_date[1]] # text)

\* purchased_date >= :start_date and purchased_date <= :end_date
InRange(text, start_date, end_date) ==
    /\ start_date # None => TextLE(IsoText[start_date[1]], text)
    /\ end_date # None => TextLE(text, IsoText[end_date[1]])

\* purchased_by IN (:0, :1, ...)
InSelections(name, selections) == selections # None => name \in Range(selections[1])

Conditions == {"purchased_date >=", "purchased_date <=", "purchased_by IN"}

Joined(clause, do_and) == IF do_and THEN Append(clause, "and") ELSE clause

where_clause_one_and(start_date, end_date, selections) ==
    LET where0 == IF start_date # None \/ end_date # None \/ selections # None
                  THEN <<"WHERE">> ELSE <<>>
        where1 == IF start_date # None
                  THEN Append(where0, "purchased_date >=") ELSE where0
        where2 == IF end_date # None
                  THEN Append(Joined(where1, start_date # None), "purchased_date <=")
                  ELSE where1
    IN  IF selections # None
        THEN Append(Joined(where2, start_date # None), "purchased_by IN")
        ELSE where2

\* the WHERE clause as the words list_all_expenses puts together: "WHERE" when
\* any filter is given, then one condition per given filter, with "and" before
\* a condition when do_and was set by an earlier one
where_clause(start_date, end_date, selections) ==
    LET where0 == IF start_date # None \/ end_date # None \/ selections # None
                  THEN <<"WHERE">> ELSE <<>>
        where1 == IF start_date # None
                  THEN Append(where0, "purchased_date >=") ELSE where0
        do_and1 == start_date # None
        where2 == IF end_date # None
                  THEN Append(Joined(where1, do_and1), "purchased_date <=")
                  ELSE where1
        do_and2 == do_and1 \/ end_date # None
    IN  IF selections # None
        THEN Append(Joined(where2, do_and2), "purchased_by IN")
        ELSE where2

\* SQLite prepares the statement only when the clause is empty or is WHERE
\* followed by conditions with an "and" between each two
WellFormed(clause) ==
    \/ clause = <<>>
    \/ /\ Len(clause) % 2 = 0
       /\ clause[1] = "WHERE"
       /\ \A i \in 2 .. Len(clause) :
             IF i % 2 = 0 THEN clause[i] \in Conditions ELSE clause[i] = "and"

\* one word of the clause evaluated on a row with the bound parameters
Holds(word, row, start_date, end_date, selections) ==
    CASE word = "purchased_date >=" -> InRange(row.purchased_date, start_date, None)
      [] word = "purchased_date <=" -> InRange(row.purchased_date, None, end_date)
      [] word = "purchased_by IN" -> InSelections(row.purchased_by, selections)
      [] OTHER -> TRUE

Where(t, start_date, end_date, selections) ==
    LET clause == where_clause(start_date, end_date, selections)
    IN  {id \in DOMAIN t :
            \A i \in DOMAIN clause :
                Holds(clause[i], t[id], start_date, end_date, selections)}

\* SELECT rowid, purchased_date, purchased_by, price_in_cents, comment
Selected(t, id) ==
    [rowid          |-> id,
     purchased_date |-> t[id].purchased_date,
     purchased_by   |-> t[id].purchased_by,
     price_in_cents |-> t[id].price_in_cents,
     comment        |-> t[id].comment]

Orders(S) ==
    {q \in [1 .. Cardinality(S) -> S] : \A i, j \in DOMAIN q : i # j => q[i] # q[j]}

\* ORDER BY rowid DESC (src/app.py)
OrderedByRowid(t, q) == \A i, j \in DOMAIN q : i < j => q[i] > q[j]

\* ORDER BY purchased_date DESC
OrderedBy(t, q) ==
    \A i, j \in DOMAIN q : i < j => TextLE(t[q[j]].purchased_date, t[q[i]].purchased_date)

\* execute_query raises when the statement cannot be prepared, for its WHERE
\* clause or for the comment column on a table created without it: no result
\* then
list_all_expenses(t, start_date, end_date, selections) ==
    IF WellFormed(where_clause(start_date, end_date, selections)) /\ "comment" \in columns
    THEN {[i \in DOMAIN q |-> Selected(t, q[i])] :
            q \in {o \in Orders(Where(t, start_date, end_date, selections)) :
                      OrderedBy(t, o)}}
    ELSE {}

\* src/app.py: SELECT rowid, purchased_date, purchased_by, price_in_cents
AppSelected(t, id) ==
    [rowid          |-> id,
     purchased_date |-> t[id].purchased_date,
     purchased_by   |-> t[id].purchased_by,
     price_in_cents |-> t[id].price_in_cents]

\* src/app.py: no filters, ORDER BY rowid DESC
app_list_all_expenses(t) ==
    {[i \in DOMAIN q |-> AppSelected(t, q[i])] :
        q \in {o \in Orders(DOMAIN t) : OrderedByRowid(t, o)}}

\* SELECT DISTINCT purchased_by FROM expenses
list_all_purchasers(t) == {t[id].purchased_by : id \in DOMAIN t}

(***************************************************************************)
(* Initialisation at a process start: CREATE TABLE IF NOT EXISTS, then one *)
(* REPLACE per seed rowid with randomly drawn values.  execute_query       *)
(* commits every statement on its own, so the statements of sessions that  *)
(* share the database fall between two statements of the seeding.          *)
(***************************************************************************)
SeedRowids == 0 .. (SeedCount - 1)

\* random.randint(1, 28) for the day of a seed's date
SeedDates == {d \in Dates : ord2ymd(d)[3] <= 28}

\* seed_expense of src/services.py: a price of randint(50, 10000), a date of
\* 2020..2022, one of the purchasers and of the comments of the code
SeedExpense ==
    [price_in_cents : {50}, purchased_date : SeedDates,
     purchased_by : {"Alice", "Bob"}, comment : {ShortComment}]

\* seed_expense of src/app.py: a price of randint(1, 500000), other purchasers,
\* no comment
AppSeedExpense ==
    [price_in_cents : {50}, purchased_date : SeedDates,
     purchased_by : {"Gar", "Mia"}]

\* REPLACE into expenses(rowid, ...) VALUES(:rowid, ...)
Replaced(t, rowid, row) ==
    [id \in DOMAIN t \cup {rowid} |-> IF id = rowid THEN row ELSE t[id]]

\* REPLACE deletes the row of that rowid and inserts the new one
ReplacedOrder(order, rowid) == Append(Without(order, rowid), rowid)

\* the pass of the seeding loop after the one for rowid
NextSeed(rowid) == IF rowid + 1 < SeedCount THEN Some(rowid + 1) ELSE None

\* create_expenses_table at a process start: the table exists and keeps its
\* columns and rows; seed_expenses_table follows
create_expenses_table ==
    /\ seeding' = Some(0)
    /\ last' = Statement("create_expenses_table", TRUE)
    /\ raised' = "none"
    /\ UNCHANGED <<table, columns, created>>
    /\ ViewsUnchanged

\* one pass of the loop of seed_expenses_table of src/services.py
seed_expenses_table(seed_expense) ==
    /\ seeding # None
    /\ IF "comment" \in columns
       THEN /\ table' = Replaced(table, seeding[1], BoundRow(seed_expense))
            /\ created' = ReplacedOrder(created, seeding[1])
            /\ seeding' = NextSeed(seeding[1])
            /\ raised' = "none"
       ELSE /\ UNCHANGED <<table, created>>
            /\ seeding' = None
            /\ raised' = "OperationalError"
    /\ last' = Statement("seed_expenses_table", seeding[1] \in DOMAIN table)
    /\ UNCHANGED columns
    /\ ViewsUnchanged

\* create_expenses_table of src/app.py at a process start
app_create_expenses_table ==
    /\ seeding' = Some(0)
    /\ last' = Statement("app_create_expenses_table", TRUE)
    /\ raised' = "none"
    /\ UNCHANGED <<table, columns, created>>
    /\ ViewsUnchanged

\* one pass of the loop of seed_expenses_table of src/app.py
app_seed_expenses_table(seed_expense) ==
    /\ seeding # None
    /\ table' = Replaced(table, seeding[1], AppBoundRow(seed_expense))
    /\ created' = ReplacedOrder(created, seeding[1])
    /\ seeding' = NextSeed(seeding[1])
    /\ raised' = "none"
    /\ last' = Statement("app_seed_expenses_table", seeding[1] \in DOMAIN table)
    /\ UNCHANGED columns
    /\ ViewsUnchanged

\* the browser sessions
Sessions == {"A", "B"}

\* where a session's run of render_read stands: not running, before get_data
\* with the selections of the multiselect, or before the expense feed
NotReading == [at |-> "none", selections |-> <<>>]

\* no page rendered, nothing cached
NothingRendered ==
    /\ cache = <<>>
    /\ read_page = [s \in Sessions |-> NotReading]
    /\ raw_df = [s \in Sessions |-> None]
    /\ shown = [s \in Sessions |-> None]
    /\ delete_page = [s \in Sessions |-> None]

\* the database after the first process start of src/services.py's version has
\* run to its end
Init ==
    /\ columns = ServicesColumns
    /\ seeding = None
    /\ \E seeds \in [SeedRowids -> SeedExpense] :
          table = [rowid \in SeedRowids |-> BoundRow(seeds[rowid])]
    /\ created = [i \in 1 .. SeedCount |-> i - 1]
    /\ last = Statement("seed_expenses_table", FALSE)
    /\ raised = "none"
    /\ NothingRendered

\* the statements of ExpenseService of src/services.py
Next ==
    \/ \E expense \in BaseExpense : create_expense(expense)
    \/ \E expense \in Expense : update_expense(expense)
    \/ \E rowid \in Rowids : delete_expense(rowid)

Spec == Init /\ [][Next]_vars

\* the statements, and process starts that run the initialisation again
NextInit ==
    \/ Next
    \/ create_expenses_table
    \/ \E seed_expense \in SeedExpense : seed_expenses_table(seed_expense)

SpecInit == Init /\ [][NextInit]_vars

(***************************************************************************)
(* The version of src/app.py on the table it creates itself.               *)
(***************************************************************************)
\* the expenses src/app.py is given: its BaseExpense has no comment
AppBaseExpense ==
    [price_in_cents : {2}, purchased_date : Dates, purchased_by : {"Gar", "Mia"}]

AppExpense ==
    {[rowid |-> rowid, price_in_cents |-> expense.price_in_cents,
      purchased_date |-> expense.purchased_date, purchased_by |-> expense.purchased_by] :
        rowid \in Rowids, expense \in AppBaseExpense}

\* the database after a process start of src/app.py has run to its end, on the
\* table it created itself or on a table that was created with the comment
\* column before
InitApp ==
    /\ columns \in {AppColumns, ServicesColumns}
    /\ seeding = None
    /\ \E seeds \in [SeedRowids -> AppSeedExpense] :
          table = [rowid \in SeedRowids |-> AppBoundRow(seeds[rowid])]
    /\ created = [i \in 1 .. SeedCount |-> i - 1]
    /\ last = Statement("app_seed_expenses_table", FALSE)
    /\ raised = "none"
    /\ NothingRendered

NextApp ==
    \/ \E expense \in AppBaseExpense : app_create_expense(expense)
    \/ \E expense \in AppExpense : app_update_expense(expense)
    \/ \E rowid \in Rowids : delete_expense(rowid)
    \/ app_create_expenses_table
    \/ \E seed_expense \in AppSeedExpense : app_seed_expenses_table(seed_expense)

SpecApp == InitApp /\ [][NextApp]_vars

(***************************************************************************)
(* The views of src/views.py.  Every session of a browser has its own page *)
(* and widget values; the sessions share the connection and the st.cache   *)
(* of get_data.  Streamlit runs the page's function on each interaction,   *)
(* and a new interaction stops the run before it; a button's on_click      *)
(* callback runs with the arguments the page bound to it when it was       *)
(* rendered.  A run is followed statement by statement, since execute_query*)
(* commits each on its own and the statements of the other sessions fall   *)
(* in between.                                                             *)
(***************************************************************************)
BeforeGetData(selections) == [at |-> "get_data", selections |-> selections]

BeforeFeed == [at |-> "feed", selections |-> <<>>]

\* a run of the script of session s starts: the page the session showed is
\* gone, and a run that had not come to its end is stopped
NewRun(s, page, bound) ==
    /\ read_page' = [read_page EXCEPT ![s] = page]
    /\ raw_df' = [raw_df EXCEPT ![s] = None]
    /\ shown' = [shown EXCEPT ![s] = None]
    /\ delete_page' = [delete_page EXCEPT ![s] = bound]

\* Expense(**row).dict(): the row with its purchased_date parsed into a date;
\* comment is a required str
ParsedExpense(row) ==
    [rowid          |-> row.rowid,
     price_in_cents |-> row.price_in_cents,
     purchased_date |-> DateOfText[row.purchased_date],
     purchased_by   |-> row.purchased_by,
     comment        |-> row.comment[1]]

\* pd.DataFrame([x.dict() for x in expenses]): one line per row, in order
DataFrame(rows) == [i \in DOMAIN rows |-> ParsedExpense(rows[i])]

\* the arguments of get_data that st.cache hashes; selections is a list, and
\* the same names in another order are other arguments
Arguments(start_date, end_date, selections) ==
    [start_date |-> start_date, end_date |-> end_date, selections |-> selections]

\* the exception of [Expense(**row) for row in list_all_expenses(...)]: the
\* statement cannot be prepared, or a row has no comment
ListingRaises(t, start_date, end_date, selections) ==
    IF list_all_expenses(t, start_date, end_date, selections) = {}
    THEN "OperationalError"
    ELSE IF \E id \in Where(t, start_date, end_date, selections) : t[id].comment = None
         THEN "ValidationError"
         ELSE "none"

\* the values the create form of the pages submits
FormExpense ==
    {expense \in BaseExpense :
        expense.price_in_cents = 2 /\ expense.purchased_date = FirstDay + 1}

\* render_create inside render_read with the form submitted: do_create, and
\* the run goes on to the rest of render_read
do_create(s, expense) ==
    /\ create_expense_query(expense)
    /\ NewRun(s, NotReading, None)
    /\ UNCHANGED cache
    /\ SchemaUnchanged

\* st.multiselect over [*purchasers, 'All']: options of the list, each picked
\* once, in the order they were picked
multiselect(selections, purchasers) ==
    /\ Range(selections) \subseteq purchasers \cup {"All"}
    /\ Cardinality(Range(selections)) = Len(selections)

\* render_read up to its widgets: SELECT DISTINCT purchased_by, and the
\* selections made among the purchasers it returned
render_read(s, selections) ==
    /\ multiselect(selections, list_all_purchasers(table))
    /\ NewRun(s, BeforeGetData(selections), None)
    /\ last' = Statement("list_all_purchasers", FALSE)
    /\ raised' = "none"
    /\ UNCHANGED <<table, created, cache>>
    /\ SchemaUnchanged

FramesOf(t, args) ==
    {DataFrame(rows) :
        rows \in list_all_expenses(t, Some(args.start_date), Some(args.end_date),
                                   Some(args.selections))}

\* get_data under @st.cache(): the function body runs when no earlier call had
\* the same arguments, and its return value is kept; otherwise the kept value
\* is returned
get_data(args, df) ==
    IF args \in DOMAIN cache
    THEN /\ df = cache[args]
         /\ UNCHANGED cache
    ELSE /\ Cardinality(DOMAIN cache) < MaxCache
         /\ df \in FramesOf(table, args)
         /\ cache' = [a \in DOMAIN cache \cup {args} |-> IF a = args THEN df ELSE cache[a]]

\* render_read from the date inputs to "Data Cleaning": get_data with the
\* widget values, then raw_df[["purchased_date", "purchased_by",
\* "price_in_cents"]], which raises on a dataframe without rows, for it has no
\* columns
render_read_get_data(s, start_date, end_date) ==
    /\ read_page[s].at = "get_data"
    /\ LET args == Arguments(start_date, end_date, read_page[s].selections)
           exception == ListingRaises(table, Some(start_date), Some(end_date),
                                      Some(args.selections))
       IN  /\ IF args \notin DOMAIN cache /\ exception # "none"
              THEN /\ raised' = exception
                   /\ read_page' = [read_page EXCEPT ![s] = NotReading]
                   /\ UNCHANGED <<cache, raw_df, shown>>
              ELSE \E df \in UNION {FramesOf(table, args), {cache[a] : a \in DOMAIN cache}} :
                      /\ get_data(args, df)
                      /\ raw_df' = [raw_df EXCEPT ![s] = Some(df)]
                      /\ shown' = [shown EXCEPT ![s] = Some(args)]
                      /\ raised' = IF df = <<>> THEN "KeyError" ELSE "none"
                      /\ read_page' = [read_page EXCEPT ![s] =
                                          IF df = <<>> THEN NotReading ELSE BeforeFeed]
           /\ last' = Statement("get_data", args \in DOMAIN cache)
    /\ UNCHANGED <<table, created, delete_page>>
    /\ SchemaUnchanged

\* the end of render_read: the unfiltered list_all_expenses of the expense
\* feed, each row made an Expense
render_read_feed(s) ==
    /\ read_page[s].at = "feed"
    /\ read_page' = [read_page EXCEPT ![s] = NotReading]
    /\ last' = Statement("list_all_expenses", FALSE)
    /\ raised' = ListingRaises(table, None, None, None)
    /\ UNCHANGED <<table, created, cache, raw_df, shown, delete_page>>
    /\ SchemaUnchanged

\* render_update: with no expense the selectbox yields None and expense_map[None]
\* raises; with expenses the selectbox's format_func reads expense.username, which
\* Expense does not have.  The form below it is never reached.
render_update(s, expense_id, price, purchased_date) ==
    /\ raised' = IF ListingRaises(table, None, None, None) # "none"
                 THEN ListingRaises(table, None, None, None)
                 ELSE IF DOMAIN table = {} THEN "KeyError" ELSE "AttributeError"
    /\ last' = Statement("render_update", FALSE)
    /\ NewRun(s, NotReading, None)
    /\ UNCHANGED <<table, created, cache>>
    /\ SchemaUnchanged

\* render_delete: the expense selected is bound to the button's on_click
render_delete(s, expense_id) ==
    /\ IF ListingRaises(table, None, None, None) # "none"
       THEN /\ raised' = ListingRaises(table, None, None, None)
            /\ NewRun(s, NotReading, None)
       ELSE IF DOMAIN table = {}
       THEN /\ raised' = "KeyError"
            /\ NewRun(s, NotReading, None)
       ELSE /\ expense_id \in DOMAIN table
            /\ \E rows \in list_all_expenses(table, None, None, None) :
                  \E i \in DOMAIN rows :
                      /\ rows[i].rowid = expense_id
                      /\ NewRun(s, NotReading, Some(ParsedExpense(rows[i])))
            /\ raised' = "none"
    /\ last' = Statement("render_delete", FALSE)
    /\ UNCHANGED <<table, created, cache>>
    /\ SchemaUnchanged

\* do_delete, the on_click of the button session s was shown, with the expense
\* the page bound to it, whatever the table holds by now; the script then runs
\* again, so the page that was clicked is gone until render_delete renders the
\* next one
do_delete(s) ==
    /\ delete_page[s] # None
    /\ delete_expense_query(delete_page[s][1].rowid)
    /\ NewRun(s, NotReading, None)
    /\ UNCHANGED cache
    /\ SchemaUnchanged

\* the selections made in the multiselect
ReadSelections ==
    {<<>>, <<"Alice">>, <<"Bob">>, <<"Alice", "Bob">>, <<"Bob", "Alice">>,
     <<"Alice", "All">>, <<"Bob", "All">>, <<"All">>}

\* one session on the pages
NextView ==
    \/ \E expense \in FormExpense : do_create("A", expense)
    \/ \E selections \in ReadSelections : render_read("A", selections)
    \/ \E start_date \in {FirstDay}, end_date \in {FirstDay + 1, FirstDay + 2} :
          render_read_get_data("A", start_date, end_date)
    \/ render_read_feed("A")
    \/ \E expense_id \in Rowids, price \in {1}, purchased_date \in {FirstDay, FirstDay + 2} :
          render_update("A", expense_id, price, purchased_date)
    \/ \E expense_id \in Rowids : render_delete("A", expense_id)
    \/ do_delete("A")

SpecView == Init /\ [][NextView]_vars

\* the read page alone, with expenses created a week and more after the seeded
\* ones and date inputs that span them
LaterExpense ==
    [price_in_cents : {2}, purchased_date : LaterDates,
     purchased_by : Names, comment : {ShortComment}]

NextRead ==
    \/ \E expense \in LaterExpense : do_create("A", expense)
    \/ \E selections \in ReadSelections : render_read("A", selections)
    \/ \E start_date \in {FirstDay, FirstDay + 2}, end_date \in LaterDates :
          render_read_get_data("A", start_date, end_date)
    \/ render_read_feed("A")

SpecRead == Init /\ [][NextRead]_vars

\* the sessions on the read and delete pages, every statement of one falling
\* anywhere between the statements of the other
NextSessions ==
    \E s \in Sessions :
        \/ \E expense_id \in Rowids : render_delete(s, expense_id)
        \/ do_delete(s)
        \/ \E expense \in FormExpense : do_create(s, expense)
        \/ \E selections \in {<<"Alice">>, <<"Bob">>} : render_read(s, selections)
        \/ render_read_get_data(s, FirstDay, FirstDay + 2)
        \/ render_read_feed(s)

SpecSessions == Init /\ [][NextSessions]_vars

(***************************************************************************)
(* The dataframes render_read derives from raw_df ("Data Cleaning").       *)
(***************************************************************************)
RECURSIVE SumFn(_)
SumFn(f) ==
    IF DOMAIN f = {} THEN 0
    ELSE LET x == CHOOSE y \in DOMAIN f : TRUE
         IN  f[x] + SumFn([y \in DOMAIN f \ {x} |-> f[y]])

Min(S) == CHOOSE x \in S : \A y \in S : x <= y

\* the sum of price_in_cents over the lines of df dated d and purchased by p
CellSum(df, d, p) ==
    SumFn([i \in {j \in DOMAIN df : df[j].purchased_date = d /\ df[j].purchased_by = p}
              |-> df[i].price_in_cents])

\* df.pivot_table(index="purchased_date", columns="purchased_by", aggfunc="sum",
\* fill_value=0): a line per date of df, a column per purchaser of df
pivot_table(df) ==
    [d \in {df[i].purchased_date : i \in DOMAIN df} |->
        [p \in {df[i].purchased_by : i \in DOMAIN df} |-> CellSum(df, d, p)]]

\* if 'All' in selections: pivot_df["All"] = pivot_df.sum(axis=1)
with_all(pivot, selections) ==
    IF "All" \in Range(selections)
    THEN [d \in DOMAIN pivot |->
            [p \in DOMAIN pivot[d] \cup {"All"} |->
                IF p = "All" THEN SumFn(pivot[d]) ELSE pivot[d][p]]]
    ELSE pivot

Columns(pivot) == UNION {DOMAIN pivot[d] : d \in DOMAIN pivot}

\* pivot_df.reindex(pd.date_range(min_date, max_date, freq="D"), fill_value=0)
reindex(pivot) ==
    [d \in Min(DOMAIN pivot) .. Max(DOMAIN pivot) |->
        IF d \in DOMAIN pivot THEN pivot[d] ELSE [p \in Columns(pivot) |-> 0]]

\* pivot_df as render_read holds it after "Fill in date gaps"
pivot_df(df, selections) == reindex(with_all(pivot_table(df), selections))

\* totals = pivot_df.sum(), in cents
totals(pivot) ==
    [p \in Columns(pivot) |-> SumFn([d \in DOMAIN pivot |-> pivot[d][p]])]

\* cum_df = pivot_df.cumsum(): each line is the sum of the lines up to it
cumsum(pivot) ==
    [d \in DOMAIN pivot |->
        [p \in Columns(pivot) |->
            SumFn([x \in {y \in DOMAIN pivot : y <= d} |-> pivot[x][p]])]]

(***************************************************************************)
(* float64 arithmetic, as numpy does it for the percentages: IEEE-754      *)
(* binary64, every operation rounded to the nearest value, ties to even.   *)
(* A natural number of any size is the sequence of its binary digits,      *)
(* least significant first.  The values in use are far from the subnormal  *)
(* range and from overflow.                                                *)
(***************************************************************************)
RECURSIVE Bits(_)
Bits(n) == IF n = 0 THEN <<>> ELSE <<n % 2>> \o Bits(n \div 2)

\* without zeros at the most significant end
Trim(a) ==
    LET ones == {i \in DOMAIN a : a[i] = 1}
    IN  IF ones = {} THEN <<>> ELSE SubSeq(a, 1, Max(ones))

\* the digits of a + b from the digit after those of sum on, with the carry
\* that the digits of sum left
RECURSIVE BitsAddFrom(_, _, _, _)
BitsAddFrom(a, b, carry, sum) ==
    LET i == Len(sum) + 1
        t == (IF i <= Len(a) THEN a[i] ELSE 0) + (IF i <= Len(b) THEN b[i] ELSE 0) + carry
    IN  IF i > Len(a) /\ i > Len(b)
        THEN (IF carry = 1 THEN Append(sum, 1) ELSE sum)
        ELSE BitsAddFrom(a, b, t \div 2, Append(sum, t % 2))

BitsAdd(a, b) == BitsAddFrom(a, b, 0, <<>>)

\* a times 2^k
Shifted(a, k) == [i \in 1 .. k |-> 0] \o a

\* a times the natural number k
RECURSIVE BitsTimes(_, _)
BitsTimes(a, k) ==
    IF k = 0 THEN <<>>
    ELSE BitsAdd(IF k % 2 = 1 THEN a ELSE <<>>, Shifted(BitsTimes(a, k \div 2), 1))

\* the digits of the significand of a float64
SIGNIFICAND == 53

Float(kind, negative, mant, exp) ==
    [kind |-> kind, negative |-> negative, mant |-> mant, exp |-> exp]

\* the float64 nearest to bits * 2^exp, bits not zero: a significand of 53
\* digits, the digits below it rounded to nearest, ties to even
Rounded(negative, bits, exp) ==
    LET b == Trim(bits)
        n == Len(b)
        d == n - SIGNIFICAND
    IN  IF d <= 0
        THEN Float("finite", negative, Shifted(b, -d), exp + d)
        ELSE LET kept == SubSeq(b, d + 1, n)
                 up == /\ b[d] = 1
                       /\ \/ kept[1] = 1
                          \/ \E i \in 1 .. (d - 1) : b[i] = 1
                 m == IF up THEN BitsAdd(kept, <<1>>) ELSE kept
             IN  IF Len(m) > SIGNIFICAND
                 THEN Float("finite", negative, Tail(m), exp + d + 1)
                 ELSE Float("finite", negative, m, exp + d)

\* r / m continued below the digits found so far, until there are as many
\* digits as asked for, and the remainder left
RECURSIVE LongDivision(_, _, _, _)
LongDivision(r, m, digits, length) ==
    IF Len(digits) >= length THEN [bits |-> digits, rem |-> r]
    ELSE IF 2 * r >= m
         THEN LongDivision(2 * r - m, m, <<1>> \o digits, length)
         ELSE LongDivision(2 * r, m, <<0>> \o digits, length)

Abs(n) == IF n < 0 THEN -n ELSE n

\* n / m of two int64 values, numpy's true_divide: both made float64, which is
\* exact for them, and the quotient rounded once; n / 0 is inf or nan.  The
\* quotient is taken to more digits than the significand holds, with one more
\* digit below them that tells whether anything was left.
true_divide(n, m) ==
    LET negative == (n < 0) # (m < 0)
    IN  IF m = 0
        THEN (IF n = 0 THEN Float("nan", FALSE, <<>>, 0) ELSE Float("inf", n < 0, <<>>, 0))
        ELSE IF n = 0 THEN Float("zero", negative, <<>>, 0)
        ELSE LET k == SIGNIFICAND + 2 + Len(Bits(Abs(m)))
                 whole == Bits(Abs(n) \div Abs(m))
                 q == LongDivision(Abs(n) % Abs(m), Abs(m), whole, Len(whole) + k)
             IN  Rounded(negative, <<IF q.rem = 0 THEN 0 ELSE 1>> \o q.bits, -(k + 1))

\* x * k of a float64 and an integer k, rounded once
multiply(x, k) ==
    IF x.kind = "finite" /\ k # 0
    THEN Rounded(x.negative # (k < 0), BitsTimes(x.mant, Abs(k)), x.exp)
    ELSE IF x.kind = "inf" /\ k = 0 THEN Float("nan", FALSE, <<>>, 0)
    ELSE IF x.kind = "nan" THEN x
    ELSE Float(x.kind, x.negative # (k < 0), <<>>, 0)

\* cum_df[cum_df.columns.drop('All', errors='ignore')]
\*     .divide(cum_df.sum(axis=1), axis=0).multiply(100):
\* the columns other than 'All', each line divided by the sum of the whole line
\* of cum_df
cum_pct_df(cum) ==
    [d \in DOMAIN cum |->
        [p \in DOMAIN cum[d] \ {"All"} |->
            multiply(true_divide(cum[d][p], SumFn(cum[d])), 100)]]

\* the window of rolling(7, ...)
ROLLING_DAYS == 7

\* the lines of a rolling window that ends at line d: d and the lines before
\* it, window lines at most
WindowLines(pivot, d, window) ==
    {x \in DOMAIN pivot :
        x <= d /\ Cardinality({y \in DOMAIN pivot : x < y /\ y <= d}) < window}

\* pivot.rolling(window, min_periods=1).sum(): a window always holds its own
\* line, so every line has a value
rolling_sum(pivot, window) ==
    [d \in DOMAIN pivot |->
        [p \in Columns(pivot) |->
            SumFn([x \in WindowLines(pivot, d, window) |-> pivot[x][p]])]]

\* rolling_df = pivot_df.rolling(7, min_periods=1).sum(), in cents
rolling_df(pivot) == rolling_sum(pivot, ROLLING_DAYS)


(***************************************************************************)
(* Properties of the statements.                                           *)
(***************************************************************************)
RowidsOf(q) == {q[i].rowid : i \in DOMAIN q}

SameFields(row, expense) ==
    /\ parse_date(row.purchased_date) = expense.purchased_date
    /\ row.purchased_by = expense.purchased_by
    /\ row.price_in_cents = expense.price_in_cents
    /\ row.comment = Some(expense.comment)

CreatedThenListed(expense, before, after) ==
    /\ Len(after) = Len(before) + 1
    /\ Range(before) \subseteq Range(after)
    /\ Cardinality(Range(after) \ Range(before)) = 1
    /\ \A row \in Range(after) \ Range(before) :
          /\ SameFields(row, expense)
          /\ row.rowid \notin RowidsOf(before)

\* C1: after create_expense(e) the unfiltered listing holds every row it held
\* before, unchanged, and exactly one more row, which has the fields of e and a
\* rowid that was not in the table.
C1_CreateThenList ==
    [][\A expense \in BaseExpense :
          (last'.op = "create_expense" /\ create_expense(expense)) =>
              \A before \in list_all_expenses(table, None, None, None) :
                  \A after \in list_all_expenses(table', None, None, None) :
                      CreatedThenListed(expense, before, after)]_vars

C1_Witness ==
    /\ last.op = "create_expense"
    /\ Cardinality(DOMAIN table) >= 2
    /\ raised = "none"

\* C1, of src/app.py alone: its INSERT of three columns adds one row with the
\* three fields of e under a rowid that was not in the table, and its listing
\* returns it with the rows listed before.
C1_AppCreateThenList ==
    [][\A expense \in AppBaseExpense :
          (last'.op = "app_create_expense" /\ app_create_expense(expense)) =>
              \A before \in app_list_all_expenses(table) :
                  \A after \in app_list_all_expenses(table') :
                      /\ Len(after) = Len(before) + 1
                      /\ Range(before) \subseteq Range(after)
                      /\ \A row \in Range(after) \ Range(before) :
                            /\ row.rowid \notin RowidsOf(before)
                            /\ parse_date(row.purchased_date) = expense.purchased_date
                            /\ row.purchased_by = expense.purchased_by
                            /\ row.price_in_cents = expense.price_in_cents]_vars

AppUpdatedOnly(expense, t, u) ==
    /\ DOMAIN u = DOMAIN t
    /\ \A id \in DOMAIN t : id # expense.rowid => u[id] = t[id]
    /\ expense.rowid \in DOMAIN t => u[expense.rowid] = AppBoundRow(expense)

UpdatedOnly(expense, t, u) ==
    /\ DOMAIN u = DOMAIN t
    /\ \A id \in DOMAIN t : id # expense.rowid => u[id] = t[id]
    /\ expense.rowid \in DOMAIN t => SameFields(u[expense.rowid], expense)

\* C2: update_expense(e) completes without error and changes only the row whose
\* rowid is e.rowid, which then holds the fields of e; the rowids are unchanged.
C2_UpdateOnlyThatRow ==
    [][\A expense \in AppExpense :
          app_update_expense(expense) =>
              /\ raised' = "none"
              /\ AppUpdatedOnly(expense, table, table')]_vars

\* C2, of src/services.py alone: the UPDATE of the current version does what
\* the claim says.
C2_ServicesUpdate ==
    [][\A expense \in Expense :
          update_expense(expense) =>
              /\ raised' = "none"
              /\ UpdatedOnly(expense, table, table')]_vars

\* C3: delete_expense removes exactly the row with that rowid and leaves every
\* other row as it was; deleting the same rowid again raises nothing and leaves
\* the table as the first delete left it.
C3_DeleteTwice ==
    [][\A rowid \in Rowids :
          (last'.op = "delete_expense" /\ delete_expense(rowid)) =>
              /\ raised' = "none"
              /\ DOMAIN table' = DOMAIN table \ {rowid}
              /\ \A id \in DOMAIN table' : table'[id] = table[id]
              /\ rowid \notin DOMAIN table => table' = table
              /\ Deleted(table', rowid) = table']_vars

C3_Witness ==
    /\ last.op = "delete_expense"
    /\ ~last.hit
    /\ raised = "none"
    /\ DOMAIN table # {}

DatedWithin(t, start_date, end_date) ==
    {id \in DOMAIN t :
        /\ start_date <= parse_date(t[id].purchased_date)
        /\ parse_date(t[id].purchased_date) <= end_date}

\* C4: list_all_expenses(start_date, end_date) returns exactly the rows with
\* start_date <= purchased_date <= end_date, each once, the rows dated on either
\* bound included.
C4_DateFilter ==
    \A start_date, end_date \in Dates :
        LET result == list_all_expenses(table, Some(start_date), Some(end_date), None)
        IN  /\ result # {}
            /\ \A q \in result :
                  /\ RowidsOf(q) = DatedWithin(table, start_date, end_date)
                  /\ Len(q) = Cardinality(RowidsOf(q))
                  /\ \A i \in DOMAIN q : q[i] = Selected(table, q[i].rowid)

C4_Witness ==
    \E start_date, end_date \in Dates :
        \E q \in list_all_expenses(table, Some(start_date), Some(end_date), None) :
            /\ start_date < end_date
            /\ \E i \in DOMAIN q : parse_date(q[i].purchased_date) = start_date
            /\ \E id \in DOMAIN table : parse_date(table[id].purchased_date) > end_date

\* C6: every stored expense has a price_in_cents >= 0.
C6_PriceNonNegative ==
    \A id \in DOMAIN table : table[id].price_in_cents >= 0

\* C7: every stored comment is no longer than the column's VARCHAR(120).
C7_CommentCapped ==
    \A id \in DOMAIN table :
        table[id].comment # None => table[id].comment[1] <= COMMENT_VARCHAR

Position(seq, x) == CHOOSE i \in DOMAIN seq : seq[i] = x

ReverseCreationOrder(q) ==
    \A i, j \in DOMAIN q :
        i < j => Position(created, q[i].rowid) > Position(created, q[j].rowid)

\* C10: list_all_expenses returns the rows in reverse creation order, whatever
\* their purchase dates.
C10_ReverseCreationOrder ==
    \A q \in list_all_expenses(table, None, None, None) : ReverseCreationOrder(q)

\* C10, of src/app.py alone: its ORDER BY rowid DESC is the reverse creation
\* order as long as the rows were inserted by create_expense.
C10_AppOrder ==
    (\A i, j \in DOMAIN created : i < j => created[i] < created[j])
        => \A q \in app_list_all_expenses(table) : ReverseCreationOrder(q)

(***************************************************************************)
(* Properties of the views.                                                *)
(***************************************************************************)
RawSum(df, p, start_date, end_date) ==
    SumFn([i \in {j \in DOMAIN df :
                    /\ df[j].purchased_by = p
                    /\ start_date <= df[j].purchased_date
                    /\ df[j].purchased_date <= end_date}
              |-> df[i].price_in_cents])

TotalIsRawSum(s, p) ==
    LET df == raw_df[s][1]
        t  == totals(pivot_df(df, shown[s][1].selections))
    IN  p \in {df[i].purchased_by : i \in DOMAIN df} =>
            /\ p \in DOMAIN t
            /\ t[p] = RawSum(df, p, shown[s][1].start_date, shown[s][1].end_date)

\* the read page of session s got as far as the charts
Rendered(s) == raw_df[s] # None /\ raw_df[s][1] # <<>>

\* C5: in the read view the total of each purchaser, summed from the pivoted and
\* gap-filled table, is the sum of price_in_cents over that purchaser's raw rows
\* in the date range.
C5_TotalsAreRawSums ==
    \A s \in Sessions : Rendered(s) => \A p \in Names : TotalIsRawSum(s, p)

\* C5, for every purchaser whose name is not that of the 'All' column.
C5_TotalsExceptAll ==
    \A s \in Sessions : Rendered(s) => \A p \in Names \ {"All"} : TotalIsRawSum(s, p)

\* C8: with an expense in the table, rendering the update page and submitting a
\* new price and purchase date raises nothing, leaves the number of rows as it
\* was and the selected row holding the submitted values.
C8_UpdateForm ==
    [][\A s \in Sessions, expense_id \in Rowids, price \in {1},
          purchased_date \in {FirstDay, FirstDay + 2} :
          (render_update(s, expense_id, price, purchased_date) /\ expense_id \in DOMAIN table) =>
              /\ raised' = "none"
              /\ Cardinality(DOMAIN table') = Cardinality(DOMAIN table)
              /\ table'[expense_id].price_in_cents = price
              /\ parse_date(table'[expense_id].purchased_date) = purchased_date]_vars

\* C9: the dataframe a render of the read view obtains from get_data holds the
\* rows of the table that match the filters at that moment, also when get_data
\* was called with the same arguments before.
C9_DataframeRefreshed ==
    [][\A s \in Sessions, start_date, end_date \in Dates :
          (render_read_get_data(s, start_date, end_date) /\ raw_df'[s] # None) =>
              raw_df'[s][1] \in FramesOf(table', Arguments(start_date, end_date,
                                                           read_page[s].selections))]_vars

(***************************************************************************)
(* C11: the three optional filters of list_all_expenses.                   *)
(***************************************************************************)
\* None, or a given date with rows before it and rows after it
OptionalDates == {None, Some(FirstDay + 1)}

\* None, or a list: empty, of one name, of several, with a name twice
OptionalSelections ==
    {None, Some(<<>>), Some(<<"Alice">>), Some(<<"Bob", "All">>), Some(<<"All", "Bob">>),
     Some(<<"Alice", "Alice">>), Some(<<"Alice", "Bob", "All">>)}

Satisfying(t, start_date, end_date, selections) ==
    {id \in DOMAIN t :
        /\ start_date # None => start_date[1] <= DateOfText[t[id].purchased_date]
        /\ end_date # None => DateOfText[t[id].purchased_date] <= end_date[1]
        /\ selections # None =>
              \E i \in DOMAIN selections[1] : t[id].purchased_by = selections[1][i]}

\* C11: for every combination of start_date, end_date and selections, each None
\* or given, the query of list_all_expenses is prepared and returns exactly the
\* rows that satisfy all the given filters, each once: every row with no filter,
\* no row with an empty selections.
C11_AllFilters ==
    \A start_date, end_date \in OptionalDates, selections \in OptionalSelections :
        LET result == list_all_expenses(table, start_date, end_date, selections)
            rows == Satisfying(table, start_date, end_date, selections)
        IN  /\ result # {}
            /\ \A q \in result :
                  /\ RowidsOf(q) = rows
                  /\ Len(q) = Cardinality(rows)
                  /\ \A i \in DOMAIN q : q[i] = Selected(table, q[i].rowid)

C11_Witness ==
    /\ Cardinality(DOMAIN table) >= 2
    /\ list_all_expenses(table, None, None, Some(<<>>)) = {<<>>}
    /\ \E q \in list_all_expenses(table, None, None, None) : RowidsOf(q) = DOMAIN table
    /\ \E d \in Dates, p \in Names :
          \E q \in list_all_expenses(table, Some(d), Some(d), Some(<<p>>)) :
              /\ q # <<>>
              /\ \E id \in DOMAIN table : table[id].purchased_by # p
    /\ \E d \in Dates, p \in Names :
          \E q \in list_all_expenses(table, None, Some(d), Some(<<p, p>>)) :
              \E id \in DOMAIN table \ RowidsOf(q) : table[id].purchased_by = p

(***************************************************************************)
(* C12: the 7-day rolling spend of the read view.                          *)
(***************************************************************************)
\* the sum of price_in_cents over the lines of df purchased by p and dated
\* from d - 6 to d
TrailingWeekSum(df, p, d) ==
    SumFn([i \in {j \in DOMAIN df :
                    /\ df[j].purchased_by = p
                    /\ d - 6 <= df[j].purchased_date
                    /\ df[j].purchased_date <= d}
              |-> df[i].price_in_cents])

RollingIsTrailingWeek(s, p) ==
    LET df == raw_df[s][1]
        days == {df[i].purchased_date : i \in DOMAIN df}
        r == rolling_df(pivot_df(df, shown[s][1].selections))
    IN  p \in {df[i].purchased_by : i \in DOMAIN df} =>
            \A d \in Min(days) .. Max(days) :
                /\ d \in DOMAIN r
                /\ p \in DOMAIN r[d]
                /\ r[d][p] = TrailingWeekSum(df, p, d)

\* C12: for every purchaser column and every day d from the earliest to the
\* latest purchase date of the filtered data, the 7-day rolling value at d is the
\* sum of that purchaser's price_in_cents over the expenses dated d-6 to d.
C12_RollingIsTrailingWeek ==
    \A s \in Sessions : Rendered(s) => \A p \in Names : RollingIsTrailingWeek(s, p)

\* C12, for every purchaser whose name is not that of the 'All' column.
C12_RollingExceptAll ==
    \A s \in Sessions :
        Rendered(s) => \A p \in Names \ {"All"} : RollingIsTrailingWeek(s, p)

\* a purchase falls out of the window: the rolling value at the last day is less
\* than the purchaser's total
C12_WindowPassed ==
    /\ Rendered("A")
    /\ \E p \in Names \ {"All"} :
          LET df == raw_df["A"][1]
              pivot == pivot_df(df, shown["A"][1].selections)
          IN  /\ p \in Columns(pivot)
              /\ rolling_df(pivot)[Max(DOMAIN pivot)][p] < totals(pivot)[p]
              /\ rolling_df(pivot)[Max(DOMAIN pivot)][p] > 0

(***************************************************************************)
(* C13: the percentage of spend over time.                                 *)
(***************************************************************************)
\* the sum of price_in_cents over the lines of df in names dated up to d
SpendUpTo(df, names, d) ==
    SumFn([i \in {j \in DOMAIN df :
                    df[j].purchased_by \in names /\ df[j].purchased_date <= d}
              |-> df[i].price_in_cents])

\* a <= b
BitsLE(a, b) ==
    LET x == Trim(a)
        y == Trim(b)
    IN  \/ Len(x) < Len(y)
        \/ /\ Len(x) = Len(y)
           /\ \A i \in DOMAIN x : (x[i] > y[i]) => \E j \in DOMAIN x : j > i /\ x[j] < y[j]

\* the float64 v times total, in units of its last place
InLastPlaces(v, total) == BitsTimes(v.mant, total)

\* 100 * n, in units of the last place of v
HundredTimes(v, n) == Shifted(Bits(100 * n), -v.exp)

\* the float64 v is 100 * n / total, to within two units in its last place:
\* one rounding of the quotient and one of the product
IsPercentage(v, n, total) ==
    IF n = 0 THEN v.kind = "zero"
    ELSE /\ v.kind = "finite"
         /\ ~v.negative
         /\ v.exp <= 0
         /\ BitsLE(InLastPlaces(v, total), BitsAdd(HundredTimes(v, n), Bits(2 * total)))
         /\ BitsLE(HundredTimes(v, n), BitsAdd(InLastPlaces(v, total), Bits(2 * total)))

\* the exact sum of the float64 values of line over the columns S, in units of
\* 2^low
RECURSIVE BitsSum(_, _, _)
BitsSum(line, S, low) ==
    IF S = {} THEN <<>>
    ELSE LET p == CHOOSE q \in S : TRUE
         IN  BitsAdd(Shifted(line[p].mant, line[p].exp - low), BitsSum(line, S \ {p}, low))

\* the values of a line of cum_pct_df sum to 100, to within 2^-40
SumsToHundred(line) ==
    LET finite == {p \in DOMAIN line : line[p].kind = "finite"}
        low == Min({line[p].exp : p \in finite})
        sum == BitsSum(line, finite, low)
    IN  /\ \A p \in DOMAIN line : line[p].kind \in {"finite", "zero"} /\ ~line[p].negative
        /\ finite # {}
        /\ low <= -40
        /\ BitsLE(sum, BitsAdd(Shifted(Bits(100), -low), Shifted(<<1>>, -low - 40)))
        /\ BitsLE(Shifted(Bits(100), -low), BitsAdd(sum, Shifted(<<1>>, -low - 40)))

PercentagesOfSelected(s) ==
    LET df == raw_df[s][1]
        days == {df[i].purchased_date : i \in DOMAIN df}
        purchasers == {df[i].purchased_by : i \in DOMAIN df}
        pct == cum_pct_df(cumsum(pivot_df(df, shown[s][1].selections)))
    IN  \A d \in Min(days) .. Max(days) :
            SpendUpTo(df, purchasers, d) > 0 =>
                /\ d \in DOMAIN pct
                /\ \A p \in purchasers :
                      /\ p \in DOMAIN pct[d]
                      /\ IsPercentage(pct[d][p], SpendUpTo(df, {p}, d),
                                      SpendUpTo(df, purchasers, d))
                /\ SumsToHundred(pct[d])

\* C13: at every date of the filled range with positive cumulative spend, each
\* selected purchaser's percentage is 100 times that purchaser's cumulative spend
\* divided by the cumulative spend of all selected purchasers, and the
\* percentages sum to 100, whether or not 'All' is selected; the values
\* are float64, so each is the quotient and the sum is 100 up to rounding.
C13_PercentagesIgnoreAll ==
    \A s \in Sessions : Rendered(s) => PercentagesOfSelected(s)

\* C13, when 'All' is not among the selections.
C13_PercentagesWithoutAll ==
    \A s \in Sessions :
        (Rendered(s) /\ "All" \notin Range(shown[s][1].selections))
            => PercentagesOfSelected(s)

\* two purchasers with spend are shown without 'All', and a percentage of
\* the last line is not the exact quotient
C13_TwoPurchasers ==
    /\ Rendered("A")
    /\ "All" \notin Range(shown["A"][1].selections)
    /\ LET df == raw_df["A"][1]
           purchasers == {df[i].purchased_by : i \in DOMAIN df}
           last_day == Max({df[i].purchased_date : i \in DOMAIN df})
           pct == cum_pct_df(cumsum(pivot_df(df, shown["A"][1].selections)))
       IN  /\ Cardinality(purchasers) = 2
           /\ \E p \in purchasers :
                 /\ pct[last_day][p].kind = "finite"
                 /\ Trim(InLastPlaces(pct[last_day][p], SpendUpTo(df, purchasers, last_day)))
                       # Trim(HundredTimes(pct[last_day][p], SpendUpTo(df, {p}, last_day)))

(***************************************************************************)
(* C14: the click on a delete page rendered earlier.                       *)
(***************************************************************************)
\* C14: a click on the delete button removes only the expense its page
\* displayed, whatever the other session created or deleted since the render;
\* no expense of this specification changes after its creation, so a removed row
\* that differs from the displayed one was created after the render.
C14_ClickRemovesDisplayed ==
    [][\A s \in Sessions :
          (delete_page[s] # None /\ last'.op = "delete_expense" /\ do_delete(s)) =>
              \A id \in DOMAIN table \ DOMAIN table' :
                  ParsedExpense(Selected(table, id)) = delete_page[s][1]]_vars

\* C14, as the statement has it: the click removes no row but the one that has
\* the displayed rowid when the button is clicked.
C14_ClickRemovesRowid ==
    [][\A s \in Sessions :
          (delete_page[s] # None /\ last'.op = "delete_expense" /\ do_delete(s)) =>
              DOMAIN table \ DOMAIN table' \subseteq {delete_page[s][1].rowid}]_vars

(***************************************************************************)
(* C15: the initialisation run again on a database that holds expenses.   *)
(***************************************************************************)
\* C15: create_expenses_table followed by seed_expenses_table, run on a table
\* that holds expenses, leaves the fields of every existing expense unchanged
\* and brings back no expense that was deleted: no statement of the seeding
\* changes or adds a row.
C15_InitRepeatable ==
    [][\A seed_expense \in SeedExpense :
          (last'.op = "seed_expenses_table" /\ seed_expenses_table(seed_expense)) =>
              /\ \A id \in DOMAIN table : id \in DOMAIN table' /\ table'[id] = table[id]
              /\ DOMAIN table' \subseteq DOMAIN table]_vars

\* C15, for the expenses whose rowid is not one of the seeded rowids.
C15_OtherRowsKept ==
    [][\A seed_expense \in SeedExpense :
          (last'.op = "seed_expenses_table" /\ seed_expenses_table(seed_expense)) =>
              /\ \A id \in DOMAIN table \ SeedRowids :
                    id \in DOMAIN table' /\ table'[id] = table[id]
              /\ DOMAIN table' \subseteq DOMAIN table \cup SeedRowids]_vars

====
